---- MODULE Spec2Model ----
(***************************************************************************)
(* Connection/session registry and event-dispatch core of the WebSocket   *)
(* server (class Server, RoomManager, createEventHandler) together with   *)
(* the process-level shutdown hooks of index.ts.                          *)
(*                                                                         *)
(* JavaScript runs one callback at a time: every action below is one run  *)
(* of a callback from its start to its first await (or its end), or the   *)
(* continuation of an async function after an await has settled.          *)
(***************************************************************************)
EXTENDS Integers, Sequences, FiniteSets, TLC

\* ------------------------------------------------------------------ bounds
NConns == 2        \* WebSocket objects the server accepts in one behaviour
NPlayers == 2      \* distinct non-empty player ids clients may claim
MaxFrames == 2     \* inbound frames in one behaviour of the router specifications
MaxRooms == 2      \* rooms created in one behaviour (randomUUID draws)
MaxLatency == 1    \* largest measured Date.now() difference, in ms
MaxCloseRuns == 2   \* runs of one WebSocket's 'close' listener in SpecReclose
MaxRoomFrames == 3  \* inbound frames received in one behaviour of SpecRooms
MaxSeatFrames == 5  \* inbound frames received in one behaviour of SpecCapacity
MaxSignals == 2     \* termination signals in one behaviour of SpecShutdown
MaxClaims == 3      \* Gift.claimGift calls in one behaviour of SpecGift
MaxRunning == 2     \* friend operations in flight at once in SpecFriends
MaxCalls == 4       \* friend operations started in one behaviour

Conns == 1..NConns
NoConn == 0                        \* undefined WebSocket
PlayerIds == 1..NPlayers
NoId == 0                          \* absent or empty 'player-id' header
RoomIds == 1..MaxRooms
NoRoomId == 0

\* ------------------------------------------------------ handshake tokens
\* Tokens a client may put in the 'authorization' header, described by what
\* jsonwebtoken.verify looks at.
SECRET_KEY == "SECRET_KEY"
TOKEN_SERVER ==
  [provided |-> TRUE, secret |-> "SECRET_KEY", expired |-> FALSE, serial |-> 0]
Tokens ==
  { [provided |-> FALSE, secret |-> "none", expired |-> FALSE, serial |-> 0],
    [provided |-> TRUE, secret |-> "OTHER_KEY", expired |-> FALSE, serial |-> 0],
    [provided |-> TRUE, secret |-> "SECRET_KEY", expired |-> FALSE, serial |-> 1],
    TOKEN_SERVER }

\* verify without the signature check.
verifyUnsigned(token, key) ==
  /\ token.provided
  /\ ~token.expired

\* verify(token, SECRET_KEY) returns normally (TRUE) or throws (FALSE).
verify(token, key) ==
  /\ token.provided
  /\ token.secret = key
  /\ ~token.expired

\* ------------------------------------------------------------ Map helpers
\* A JavaScript Map is its list of entries in insertion order.
EntryIndex(m, k) ==
  IF \E i \in 1..Len(m) : m[i].id = k
  THEN CHOOSE i \in 1..Len(m) : m[i].id = k /\ \A j \in 1..(i - 1) : m[j].id # k
  ELSE 0

MapHas(m, k) == EntryIndex(m, k) # 0

MapSet(m, k, v) ==
  IF MapHas(m, k)
  THEN [m EXCEPT ![EntryIndex(m, k)] = [id |-> k, ws |-> v]]
  ELSE Append(m, [id |-> k, ws |-> v])

MapDelete(m, k) == SelectSeq(m, LAMBDA e : e.id # k)

MapKeys(m) == [i \in 1..Len(m) |-> m[i].id]
MapValues(m) == [i \in 1..Len(m) |-> m[i].ws]

VARIABLES
  clients,      \* Server.clients: Map<string, WebSocket>, as its entry list
  phase,        \* per WebSocket: where its 'connection' callback stands
  open,         \* per WebSocket: readyState = OPEN
  request,      \* the upgrade request of the 'connection' callback that just ran
  playerIdOf,   \* per WebSocket: `playerId` captured by its listeners' closure
  outbox,       \* per WebSocket: frames ws.send() wrote while it was open
  dbPending,    \* Player.setPlayerConnectionStatus calls not yet settled
  dbCalls,      \* per WebSocket: how many calls were made with true / false
  isConnect,    \* per player id: the persisted isConnect field
  proc,         \* the Node process: Running, ShuttingDown, Exited
  listening,    \* rawHttpServer accepts new connections
  unhandled,    \* origins of the rejections that reached 'unhandledRejection'
  rooms,        \* RoomManager.rooms: Map<RoomId, Room>, as its entry list
  uuids,        \* how many ids crypto.randomUUID() has handed out
  latencies,    \* Server.latencies: player id -> last measured latency
  received,     \* per WebSocket: 'message' events its listener has seen
  inflight,     \* handler calls handleEvent is awaiting
  closeRuns,    \* per WebSocket: how many times its 'close' listener has run
  message,      \* the WebSocket and frame of the 'message' callback that just ran
  table,        \* Server.eventHandlers: the event names that have a handler
  settled,      \* the handler call whose await just settled, how, and after how long
  signals,      \* termination signals (SIGINT, SIGTERM) the process has received
  claimedBy,    \* the gift document's claimedBy array, as the database stores it
  claiming,     \* Gift.claimGift calls between their findOne and their save
  docs,         \* the players collection: player id -> stored document
  running,      \* Player friend operations between two of their awaits
  returned,     \* the model call that just returned, and its result
  started       \* how many model calls have been started

vars ==
  << clients, phase, open, request, playerIdOf, outbox, dbPending, dbCalls,
     isConnect, proc, listening, unhandled, rooms, uuids, latencies, received, inflight,
     closeRuns, message, table, settled, signals,
     claimedBy, claiming, docs, running, returned, started >>

\* What the Mongoose models keep: the gift and player documents and the calls on them.
dbVars == << claimedBy, claiming, docs, running, returned, started >>

registryVars ==
  << clients, phase, open, playerIdOf, dbPending, dbCalls, isConnect,
     closeRuns >>
routerVars == << rooms, uuids, latencies, received, inflight >>

NoRequest == [ws |-> NoConn, token |-> TOKEN_SERVER, playerId |-> NoId]

\* A player document as Player.ensurePlayer creates it: no friends, no requests.
NewPlayer == [exists |-> TRUE, friends |-> << >>, friendRequests |-> << >>]

\* No model call returned in the last step.
NoReturn ==
  [n |-> 0, op |-> "", a |-> NoId, b |-> NoId, success |-> FALSE, message |-> "",
   changed |-> FALSE]

\* No handler call settled in the last step.
NoSettled ==
  [call |-> [ws |-> NoConn, id |-> NoId, event |-> "", seq |-> 0],
   ok |-> FALSE, elapsed |-> 0]

\* No 'message' callback ran in the last step.
NoMessage ==
  [ws |-> NoConn,
   frame |-> [malformed |-> TRUE, event |-> "",
              data |-> [present |-> FALSE, isString |-> FALSE, roomId |-> NoRoomId]]]

\* Frames the server writes: {event, data}. `re` is the arrival number, on its
\* connection, of the request a handler's reply answers (0: not a reply).
NoRoom == [id |-> NoRoomId, players |-> << >>]
ErrorFrame(code) == [event |-> "error", error |-> code, room |-> NoRoom, re |-> 0]
RoomFrame(event, room) == [event |-> event, error |-> "", room |-> room, re |-> 0]
ReplyFrame(event, seq) == [event |-> event, error |-> "", room |-> NoRoom, re |-> seq]

\* ------------------------------------------------------- registry lookups
\* getClientId returning the first entry's key without comparing its client.
getClientIdFirstEntry(ws) ==
  IF Len(clients) > 0 THEN clients[1].id ELSE NoId

getClientId(ws) ==
  IF \E i \in 1..Len(clients) : clients[i].ws = ws
  THEN clients[CHOOSE i \in 1..Len(clients) :
                 clients[i].ws = ws /\ \A j \in 1..(i - 1) : clients[j].ws # ws].id
  ELSE NoId

getClientWebsocket(playerId) ==
  IF MapHas(clients, playerId)
  THEN clients[EntryIndex(clients, playerId)].ws
  ELSE NoConn

clientsIds == MapKeys(clients)
clientsWebsockets == MapValues(clients)
clientsCount == Len(clients)

\* ------------------------------------------------------------ primitives
\* ws.send(frame): written to the peer only while the socket is OPEN.
Send(ob, ws, frame) ==
  IF open[ws] THEN [ob EXCEPT ![ws] = Append(@, frame)] ELSE ob

\* shutdown that starts the process over when it is called a second time.
shutdownReopens ==
  /\ listening' = (proc # "Running")
  /\ proc' = IF proc = "Running" THEN "ShuttingDown" ELSE "Running"

\* shutdown(signal) of setupGracefulShutdown up to its await: the HTTP server
\* stops accepting connections and the database close is started.
shutdown ==
  /\ listening' = FALSE
  /\ proc' = IF proc = "Running" THEN "ShuttingDown" ELSE proc

\* A promise rejected with nobody awaiting it: 'unhandledRejection' fires and
\* its listener calls shutdown.
UnhandledRejection(origin) ==
  /\ unhandled' = unhandled \cup {origin}
  /\ shutdown

NoProcessEvent == UNCHANGED << proc, listening, unhandled >>

\* Player.setPlayerConnectionStatus(playerId, isConnected) is called: the
\* update is in flight until the database answers.
setPlayerConnectionStatus(ws, playerId, isConnected) ==
  /\ dbPending' = dbPending \cup
       {[ws |-> ws, id |-> playerId, value |-> isConnected]}
  /\ dbCalls' = [dbCalls EXCEPT ![ws][isConnected] = @ + 1]

\* --------------------------------------------------------------- handshake
\* The handshake without the `this.clients.has(playerId)` test.
HandshakeErrorNoDuplicateCheck(token, playerId) ==
  IF ~verify(token, SECRET_KEY) THEN "ERR_MISSING_TOKEN"
  ELSE IF token # TOKEN_SERVER THEN "ERR_VALID_TOKEN"
  ELSE IF playerId = NoId THEN "ERR_MISSING_PLAYER_ID"
  ELSE "OK"

\* The handshake with the player-id checks made before the token checks.
HandshakeErrorIdFirst(token, playerId) ==
  IF playerId = NoId THEN "ERR_MISSING_PLAYER_ID"
  ELSE IF MapHas(clients, playerId) THEN "ERR_ALREADY_CONNECTED"
  ELSE IF ~verify(token, SECRET_KEY) THEN "ERR_MISSING_TOKEN"
  ELSE IF token # TOKEN_SERVER THEN "ERR_VALID_TOKEN"
  ELSE "OK"

\* The checks of the 'connection' callback, in the order the code makes
\* them; "OK" when none rejects.
HandshakeError(token, playerId) ==
  IF ~verify(token, SECRET_KEY) THEN "ERR_MISSING_TOKEN"
  ELSE IF token # TOKEN_SERVER THEN "ERR_VALID_TOKEN"
  ELSE IF playerId = NoId \/ MapHas(clients, playerId)
    THEN (IF playerId = NoId THEN "ERR_MISSING_PLAYER_ID"
                             ELSE "ERR_ALREADY_CONNECTED")
  ELSE "OK"

\* rejectConnection without ws.close().
rejectConnectionNoClose(ws, code) ==
  /\ outbox' = [outbox EXCEPT ![ws] = Append(@, ErrorFrame(code))]
  /\ open' = [open EXCEPT ![ws] = TRUE]

rejectConnection(ws, code) ==
  /\ outbox' = [outbox EXCEPT ![ws] = Append(@, ErrorFrame(code))]
  /\ open' = [open EXCEPT ![ws] = FALSE]

\* wss.on('connection'): a new WebSocket arrives, open, with its headers; the
\* callback runs up to `await Player.setPlayerConnectionStatus(playerId, true)`.
Connection(ws, token, playerId) ==
  /\ proc # "Exited"
  /\ listening
  /\ phase[ws] = "none"
  /\ \A w \in Conns : w < ws => phase[w] # "none"
  /\ request' = [ws |-> ws, token |-> token, playerId |-> playerId]
  /\ message' = NoMessage
  /\ settled' = NoSettled
  /\ UNCHANGED dbVars
  /\ UNCHANGED << table, signals >>
  /\ LET err == HandshakeError(token, playerId) IN
     IF err # "OK"
     THEN /\ rejectConnection(ws, err)
          /\ phase' = [phase EXCEPT ![ws] = "rejected"]
          /\ UNCHANGED << clients, playerIdOf, dbPending, dbCalls >>
     ELSE /\ clients' = MapSet(clients, playerId, ws)
          /\ playerIdOf' = [playerIdOf EXCEPT ![ws] = playerId]
          /\ setPlayerConnectionStatus(ws, playerId, TRUE)
          /\ phase' = [phase EXCEPT ![ws] = "registering"]
          /\ open' = [open EXCEPT ![ws] = TRUE]
          /\ UNCHANGED outbox
  /\ NoProcessEvent
  /\ UNCHANGED << isConnect, closeRuns >>
  /\ UNCHANGED routerVars

\* The continuation of the 'connection' callback once the mark-connected
\* update has settled: on success ws.on('message') and ws.on('close') are
\* attached; on failure the callback's promise rejects.
ConnectSettled(call, ok) ==
  /\ proc # "Exited"
  /\ call \in dbPending
  /\ call.value = TRUE
  /\ dbPending' = dbPending \ {call}
  /\ IF ok
     THEN /\ isConnect' = [isConnect EXCEPT ![call.id] = TRUE]
          /\ phase' = [phase EXCEPT ![call.ws] = "attached"]
          /\ NoProcessEvent
     ELSE /\ phase' = [phase EXCEPT ![call.ws] = "failed"]
          /\ UnhandledRejection("connection")
          /\ UNCHANGED isConnect
  /\ request' = NoRequest
  /\ message' = NoMessage
  /\ settled' = NoSettled
  /\ UNCHANGED dbVars
  /\ UNCHANGED << table, signals >>
  /\ UNCHANGED << clients, open, playerIdOf, outbox, dbCalls, closeRuns >>
  /\ UNCHANGED routerVars

\* The listener deleting by the captured playerId instead of searching for ws.
closeListenerByPlayerId(ws) ==
  IF MapHas(clients, playerIdOf[ws])
  THEN /\ clients' = MapDelete(clients, playerIdOf[ws])
       /\ setPlayerConnectionStatus(ws, playerIdOf[ws], FALSE)
  ELSE UNCHANGED << clients, dbPending, dbCalls >>

\* The body of the ws.on('close') listener, up to its await.
closeListener(ws) ==
  LET id == getClientId(ws) IN
  IF id # NoId
  THEN /\ clients' = MapDelete(clients, id)
       /\ setPlayerConnectionStatus(ws, playerIdOf[ws], FALSE)
  ELSE UNCHANGED << clients, dbPending, dbCalls >>

\* The body of the listener run once more for a WebSocket whose 'close'
\* listener has already run.
CloseAgain(ws) ==
  /\ proc # "Exited"
  /\ phase[ws] = "attached"
  /\ ~open[ws]
  /\ closeRuns[ws] >= 1
  /\ closeRuns[ws] < MaxCloseRuns
  /\ closeListener(ws)
  /\ closeRuns' = [closeRuns EXCEPT ![ws] = @ + 1]
  /\ request' = NoRequest
  /\ message' = NoMessage
  /\ settled' = NoSettled
  /\ UNCHANGED dbVars
  /\ UNCHANGED << table, signals >>
  /\ NoProcessEvent
  /\ UNCHANGED << phase, open, playerIdOf, outbox, isConnect >>
  /\ UNCHANGED routerVars

\* A 'close' listener that also deletes the rooms the player is a member of.
OnCloseDeletesRooms(ws) ==
  /\ proc # "Exited"
  /\ open[ws]
  /\ open' = [open EXCEPT ![ws] = FALSE]
  /\ IF phase[ws] = "attached"
     THEN /\ closeListener(ws)
          /\ closeRuns' = [closeRuns EXCEPT ![ws] = @ + 1]
     ELSE UNCHANGED << clients, dbPending, dbCalls, closeRuns >>
  /\ NoProcessEvent
  /\ request' = NoRequest
  /\ message' = NoMessage
  /\ settled' = NoSettled
  /\ UNCHANGED dbVars
  /\ UNCHANGED << table, signals >>
  /\ UNCHANGED << phase, playerIdOf, outbox, isConnect >>
  /\ rooms' = SelectSeq(rooms, LAMBDA r :
                 \A k \in 1..Len(r.players) : r.players[k] # playerIdOf[ws])
  /\ UNCHANGED << uuids, latencies, received, inflight >>

\* The transport of an accepted WebSocket closes and 'close' is emitted: the
\* listener runs if it is attached by then.
OnClose(ws) ==
  /\ proc # "Exited"
  /\ open[ws]
  /\ open' = [open EXCEPT ![ws] = FALSE]
  /\ IF phase[ws] = "attached"
     THEN /\ closeListener(ws)
          /\ closeRuns' = [closeRuns EXCEPT ![ws] = @ + 1]
     ELSE UNCHANGED << clients, dbPending, dbCalls, closeRuns >>
  /\ NoProcessEvent
  /\ request' = NoRequest
  /\ message' = NoMessage
  /\ settled' = NoSettled
  /\ UNCHANGED dbVars
  /\ UNCHANGED << table, signals >>
  /\ UNCHANGED << phase, playerIdOf, outbox, isConnect >>
  /\ UNCHANGED routerVars

\* The continuation of the 'close' listener once the mark-disconnected update
\* has settled; a failed update rejects the listener's promise.
DisconnectSettled(call, ok) ==
  /\ proc # "Exited"
  /\ call \in dbPending
  /\ call.value = FALSE
  /\ dbPending' = dbPending \ {call}
  /\ IF ok
     THEN /\ isConnect' = [isConnect EXCEPT ![call.id] = FALSE]
          /\ NoProcessEvent
     ELSE /\ UnhandledRejection("close")
          /\ UNCHANGED isConnect
  /\ request' = NoRequest
  /\ message' = NoMessage
  /\ settled' = NoSettled
  /\ UNCHANGED dbVars
  /\ UNCHANGED << table, signals >>
  /\ UNCHANGED << clients, phase, open, playerIdOf, outbox, dbCalls, closeRuns >>
  /\ UNCHANGED routerVars


\* ------------------------------------------------------------ RoomManager
maxPlayers == 4

RoomIndex(rs, roomId) ==
  IF \E i \in 1..Len(rs) : rs[i].id = roomId
  THEN CHOOSE i \in 1..Len(rs) : rs[i].id = roomId
  ELSE 0

Includes(players, playerId) == \E i \in 1..Len(players) : players[i] = playerId

\* Array.indexOf, 1-based; 0 when absent.
IndexOf(players, playerId) ==
  IF Includes(players, playerId)
  THEN CHOOSE i \in 1..Len(players) :
         players[i] = playerId /\ \A j \in 1..(i - 1) : players[j] # playerId
  ELSE 0

\* Array.splice(index, 1)
Splice(players, index) ==
  [i \in 1..(Len(players) - 1) |-> IF i < index THEN players[i] ELSE players[i + 1]]

\* The first room, in Map order, whose players include playerId; 0 if none.
RoomIndexByPlayer(rs, playerId) ==
  IF \E i \in 1..Len(rs) : Includes(rs[i].players, playerId)
  THEN CHOOSE i \in 1..Len(rs) :
         /\ Includes(rs[i].players, playerId)
         /\ \A j \in 1..(i - 1) : ~Includes(rs[j].players, playerId)
  ELSE 0

\* An id generator that hands out the same id every time.
randomUUIDRepeating(used) == 1

\* crypto.randomUUID(): an id never handed out before.
randomUUID(used) == used + 1

\* createRoom dropping the rooms that were in the table.
createRoomAlone(rs, id, playerId) == << [id |-> id, players |-> << playerId >>] >>

createRoom(rs, id, playerId) == Append(rs, [id |-> id, players |-> << playerId >>])

\* The joinRoom test without `room.players.length >= room.maxPlayers`.
CanJoinNoCapacity(rs, roomId) == RoomIndex(rs, roomId) # 0

\* joinRoom returns null (here: the table is left as it is) when the room is
\* missing or full.
CanJoin(rs, roomId) ==
  /\ RoomIndex(rs, roomId) # 0
  /\ Len(rs[RoomIndex(rs, roomId)].players) < maxPlayers

\* joinRoom making the room when the id is not in the table.
joinRoomCreatesMissing(rs, playerId, roomId) ==
  IF RoomIndex(rs, roomId) = 0
  THEN Append(rs, [id |-> roomId, players |-> << playerId >>])
  ELSE IF Len(rs[RoomIndex(rs, roomId)].players) < maxPlayers
  THEN [rs EXCEPT ![RoomIndex(rs, roomId)].players = Append(@, playerId)]
  ELSE rs

joinRoom(rs, playerId, roomId) ==
  IF CanJoin(rs, roomId)
  THEN [rs EXCEPT ![RoomIndex(rs, roomId)].players = Append(@, playerId)]
  ELSE rs

leaveRoom(rs, playerId) ==
  LET i == RoomIndexByPlayer(rs, playerId) IN
  IF i = 0 THEN rs
  ELSE LET left == Splice(rs[i].players, IndexOf(rs[i].players, playerId)) IN
       IF Len(left) = 0
       THEN SelectSeq(rs, LAMBDA r : r.id # rs[i].id)
       ELSE [rs EXCEPT ![i].players = left]

\* ----------------------------------------------------------- event router
\* The handler table of events/index.ts; the built-in room events are not
\* in it.
eventHandlers == {"giftList"}

\* The table is a plain object, so `this.eventHandlers[event]` also finds
\* what the object inherits from Object.prototype; toString is such a
\* function, and called as a handler it returns a string.
inheritedHandlers == {"toString"}

\* What an inbound frame can be: text JSON.parse rejects (or JSON null, which
\* the destructuring rejects), or {event, data}; "undefined" is the event of
\* JSON that has no event field. data: absent (undefined/null), an object
\* whose roomId is a string, or an object whose roomId is not a string.
NoData == [present |-> FALSE, isString |-> FALSE, roomId |-> NoRoomId]
Frames ==
  { [malformed |-> TRUE, event |-> "", data |-> NoData] }
  \cup { [malformed |-> FALSE, event |-> e, data |-> NoData] :
           e \in {"create_room", "join_room", "leave_room", "giftList",
                  "totally_unknown", "toString", "undefined"} }
  \cup { [malformed |-> FALSE, event |-> "join_room",
          data |-> [present |-> TRUE, isString |-> TRUE, roomId |-> r]] :
           r \in RoomIds }
  \cup { [malformed |-> FALSE, event |-> "join_room",
          data |-> [present |-> TRUE, isString |-> FALSE, roomId |-> NoRoomId]] }

\* A fan-out that gives up at the first player without a registry entry.
RECURSIVE FanOutUntilOffline(_, _, _)
FanOutUntilOffline(ob, players, frame) ==
  IF players = << >> THEN ob
  ELSE LET clientWs == getClientWebsocket(Head(players)) IN
       IF clientWs = NoConn THEN ob
       ELSE FanOutUntilOffline(Send(ob, clientWs, frame), Tail(players), frame)

\* emit(clientWs, event, room) to the live connection of each listed player,
\* in list order (room.players.forEach).
RECURSIVE FanOut(_, _, _)
FanOut(ob, players, frame) ==
  IF players = << >> THEN ob
  ELSE LET clientWs == getClientWebsocket(Head(players)) IN
       FanOut(IF clientWs # NoConn THEN Send(ob, clientWs, frame) ELSE ob,
              Tail(players), frame)

\* After the switch: the handler lookup and, if one is registered, the call
\* handleEvent then awaits.
Dispatch(event, ws, playerId) ==
  IF event \in table \cup inheritedHandlers
  THEN inflight' = inflight \cup
         {[ws |-> ws, id |-> playerId, event |-> event, seq |-> received'[ws]]}
  ELSE UNCHANGED inflight

\* The check left out: whatever roomId is goes on to joinRoom.
roomIdAnyType(data) == TRUE

\* typeof roomId === 'string' for the roomId of a join_room payload.
roomIdIsString(data) == data.isString

\* handleEvent(event, data, ws), up to its first await or its end.
handleEvent(event, data, ws) ==
  LET playerId == getClientId(ws) IN
  IF playerId = NoId
  THEN /\ UNCHANGED << rooms, uuids, outbox, inflight >>
       /\ NoProcessEvent
  ELSE
    CASE event = "create_room" ->
           LET id == randomUUID(uuids) IN
           /\ uuids' = id
           /\ rooms' = createRoom(rooms, id, playerId)
           /\ outbox' = Send(outbox, ws,
                             RoomFrame("room_created", rooms'[RoomIndex(rooms', id)]))
           /\ Dispatch(event, ws, playerId)
           /\ NoProcessEvent
      [] event = "join_room" /\ ~data.present ->
           \* (data as {roomId}).roomId on undefined: TypeError rejects the
           \* promise handleEvent returned, which handleMessage did not await.
           /\ UNCHANGED << rooms, uuids, outbox, inflight >>
           /\ UnhandledRejection("handleEvent")
      [] event = "join_room" /\ data.present /\ ~roomIdIsString(data) ->
           /\ outbox' = Send(outbox, ws, ErrorFrame("INVALID_ROOM_ID"))
           /\ UNCHANGED << rooms, uuids, inflight >>
           /\ NoProcessEvent
      [] event = "join_room" /\ data.present /\ roomIdIsString(data) ->
           /\ rooms' = joinRoom(rooms, playerId, data.roomId)
           /\ outbox' =
                IF CanJoin(rooms, data.roomId)
                THEN LET room == rooms'[RoomIndex(rooms', data.roomId)] IN
                     FanOut(outbox, room.players, RoomFrame("room_updated", room))
                ELSE Send(outbox, ws, ErrorFrame("ROOM_FULL_OR_NOT_FOUND"))
           /\ Dispatch(event, ws, playerId)
           /\ UNCHANGED uuids
           /\ NoProcessEvent
      [] event = "leave_room" ->
           LET i == RoomIndexByPlayer(rooms, playerId) IN
           /\ rooms' = leaveRoom(rooms, playerId)
           /\ outbox' =
                IF i = 0 THEN outbox
                ELSE LET left == Splice(rooms[i].players,
                                        IndexOf(rooms[i].players, playerId)) IN
                     FanOut(outbox, left,
                            RoomFrame("room_updated",
                                      [id |-> rooms[i].id, players |-> left]))
           /\ Dispatch(event, ws, playerId)
           /\ UNCHANGED uuids
           /\ NoProcessEvent
      [] OTHER ->
           /\ UNCHANGED << rooms, uuids, outbox >>
           /\ Dispatch(event, ws, playerId)
           /\ NoProcessEvent

\* handleMessage without its try/catch: the exception of JSON.parse leaves the
\* 'message' listener and reaches the process.
handleMessageUncaught(frame, ws) ==
  IF frame.malformed
  THEN /\ UNCHANGED << rooms, uuids, outbox, inflight >>
       /\ UnhandledRejection("handleMessage")
  ELSE handleEvent(frame.event, frame.data, ws)

\* handleMessage(message, ws): JSON.parse and destructuring inside try/catch,
\* then handleEvent, whose promise is dropped.
handleMessage(frame, ws) ==
  IF frame.malformed
  THEN /\ UNCHANGED << rooms, uuids, outbox, inflight >>
       /\ NoProcessEvent
  ELSE handleEvent(frame.event, frame.data, ws)

\* ------------------------------------------------------------- latency
\* The value getGlobalLatency returns: null, or totalLatency / length, kept
\* as the two numbers of the division.
null == [total |-> 0, length |-> 0]

RECURSIVE reduce(_, _)
reduce(samples, ids) ==
  IF ids = {} THEN 0
  ELSE LET p == CHOOSE q \in ids : TRUE IN
       samples[p] + reduce(samples, ids \ {p})

\* getGlobalLatency without the filter: every stored sample is averaged.
getGlobalLatencyAll ==
  LET ids == DOMAIN latencies IN
  IF Cardinality(ids) = 0 THEN null
  ELSE [total |-> reduce(latencies, ids), length |-> Cardinality(ids)]

\* getGlobalLatency(): the stored samples that are > 0, averaged.
getGlobalLatency ==
  LET ids == { p \in DOMAIN latencies : latencies[p] > 0 } IN
  IF Cardinality(ids) = 0 THEN null
  ELSE [total |-> reduce(latencies, ids), length |-> Cardinality(ids)]

RECURSIVE SumReceived(_)
SumReceived(n) == IF n = 0 THEN 0 ELSE received[n] + SumReceived(n - 1)

\* Spec follows the registry with at most one inbound frame in a behaviour;
\* SpecRouter follows the router with MaxFrames of them.
NoFrameYet == \A w \in Conns : received[w] = 0

\* A 'message' listener that enters every event name it sees in the table.
OnMessageRegisters(ws, frame) ==
  /\ proc # "Exited"
  /\ phase[ws] = "attached"
  /\ open[ws]
  /\ frame.event = "create_room" => uuids < MaxRooms
  /\ received' = [received EXCEPT ![ws] = @ + 1]
  /\ handleMessage(frame, ws)
  /\ request' = NoRequest
  /\ message' = [ws |-> ws, frame |-> frame]
  /\ settled' = NoSettled
  /\ UNCHANGED dbVars
  /\ table' = IF frame.malformed THEN table ELSE table \cup {frame.event}
  /\ UNCHANGED signals
  /\ UNCHANGED registryVars
  /\ UNCHANGED latencies

\* ws.on('message'): a frame arrives on an open WebSocket whose listeners are
\* attached.
OnMessage(ws, frame) ==
  /\ proc # "Exited"
  /\ phase[ws] = "attached"
  /\ open[ws]
  /\ frame.event = "create_room" => uuids < MaxRooms
  /\ received' = [received EXCEPT ![ws] = @ + 1]
  /\ handleMessage(frame, ws)
  /\ request' = NoRequest
  /\ message' = [ws |-> ws, frame |-> frame]
  /\ settled' = NoSettled
  /\ UNCHANGED dbVars
  /\ UNCHANGED << table, signals >>
  /\ UNCHANGED registryVars
  /\ UNCHANGED latencies

\* createEventHandler if the reply went to whatever WebSocket the registry
\* holds for the player when the logic returns.
createEventHandlerByPlayer(ob, call, ok) ==
  LET clientWs == getClientWebsocket(call.id) IN
  IF ok /\ clientWs # NoConn
  THEN Send(ob, clientWs, ReplyFrame(call.event, call.seq))
  ELSE ob

\* The wrapper createEventHandler(eventName, handlerLogic) returns, after
\* `await handlerLogic(data, ws)` settles: on a result it sends the reply on
\* the WebSocket it was called with, on a throw it only logs.
createEventHandler(ob, call, ok) ==
  IF ok THEN Send(ob, call.ws, ReplyFrame(call.event, call.seq)) ELSE ob

\* HandlerSettled if nothing caught what handlerLogic throws: the rejection
\* reaches the process.
HandlerSettledCrashes(call, ok, elapsed) ==
  /\ proc # "Exited"
  /\ call \in inflight
  /\ call.event \in inheritedHandlers => ok
  /\ inflight' = inflight \ {call}
  /\ outbox' = IF call.event \in inheritedHandlers THEN outbox
                ELSE createEventHandler(outbox, call, ok)
  /\ latencies' = [p \in DOMAIN latencies \cup {call.id} |->
                     IF p = call.id THEN elapsed ELSE latencies[p]]
  /\ IF ok THEN NoProcessEvent ELSE UnhandledRejection("handler")
  /\ request' = NoRequest
  /\ message' = NoMessage
  /\ settled' = [call |-> call, ok |-> ok, elapsed |-> elapsed]
  /\ UNCHANGED dbVars
  /\ UNCHANGED << table, signals >>
  /\ UNCHANGED registryVars
  /\ UNCHANGED << rooms, uuids, received >>

\* The continuation of handleEvent after `await handler(data, ws)`: the
\* wrapper has sent the reply or logged the throw, its promise resolves
\* either way, and handleEvent stores the latency sample under the player id
\* it looked up when the frame arrived. An inherited function returns
\* normally and sends nothing.
HandlerSettled(call, ok, elapsed) ==
  /\ proc # "Exited"
  /\ call \in inflight
  /\ call.event \in inheritedHandlers => ok
  /\ inflight' = inflight \ {call}
  /\ outbox' = IF call.event \in inheritedHandlers THEN outbox
                ELSE createEventHandler(outbox, call, ok)
  /\ latencies' = [p \in DOMAIN latencies \cup {call.id} |->
                     IF p = call.id THEN elapsed ELSE latencies[p]]
  /\ NoProcessEvent
  /\ request' = NoRequest
  /\ message' = NoMessage
  /\ settled' = [call |-> call, ok |-> ok, elapsed |-> elapsed]
  /\ UNCHANGED dbVars
  /\ UNCHANGED << table, signals >>
  /\ UNCHANGED registryVars
  /\ UNCHANGED << rooms, uuids, received >>

\* A frame arrives on an accepted WebSocket before `await
\* Player.setPlayerConnectionStatus(playerId, true)` has settled (or after it
\* rejected): ws emits 'message', no listener is attached yet, and the frame
\* is gone.
OnMessageNoListener(ws, frame) ==
  /\ proc # "Exited"
  /\ phase[ws] \in {"registering", "failed"}
  /\ open[ws]
  /\ request' = NoRequest
  /\ message' = [ws |-> ws, frame |-> frame]
  /\ settled' = NoSettled
  /\ UNCHANGED dbVars
  /\ NoProcessEvent
  /\ UNCHANGED << table, signals >>
  /\ UNCHANGED registryVars
  /\ UNCHANGED routerVars
  /\ UNCHANGED outbox

\* Server.on(event, handler): the host registers a handler under an event
\* name; the handler is one createEventHandler built, like those of the table.
on(event) ==
  /\ proc # "Exited"
  /\ table' = table \cup {event}
  /\ NoProcessEvent
  /\ request' = NoRequest
  /\ message' = NoMessage
  /\ settled' = NoSettled
  /\ UNCHANGED dbVars
  /\ UNCHANGED signals
  /\ UNCHANGED registryVars
  /\ UNCHANGED routerVars
  /\ UNCHANGED outbox

\* process.on('SIGINT' | 'SIGTERM'): the listener calls shutdown(signal).
Signal ==
  /\ proc # "Exited"
  /\ signals < MaxSignals
  /\ signals' = signals + 1
  /\ shutdown
  /\ UNCHANGED unhandled
  /\ request' = NoRequest
  /\ message' = NoMessage
  /\ settled' = NoSettled
  /\ UNCHANGED dbVars
  /\ UNCHANGED table
  /\ UNCHANGED registryVars
  /\ UNCHANGED routerVars
  /\ UNCHANGED outbox

\* `await database_close()` has settled and shutdown goes on to
\* process.exit(0).
ProcessExit ==
  /\ proc = "ShuttingDown"
  /\ proc' = "Exited"
  /\ request' = NoRequest
  /\ message' = NoMessage
  /\ settled' = NoSettled
  /\ UNCHANGED dbVars
  /\ UNCHANGED << table, signals >>
  /\ UNCHANGED << registryVars, routerVars, outbox, listening, unhandled >>

\* --------------------------------------------------------- models/gift.ts
\* How often x occurs in a stored array.
Occurrences(array, x) == Cardinality({k \in 1..Len(array) : array[k] = x})

\* gift.canClaimed(userId) for a gift that is always available and restricts
\* nobody: the only refusal left is a user id already in claimedBy.
canClaimed(claimed, userId) ==
  IF Includes(claimed, userId)
  THEN [canClaim |-> FALSE, message |-> "Gift already claimed."]
  ELSE [canClaim |-> TRUE, message |-> ""]

\* What a model call returns to its handler; changed tells whether the call
\* wrote to a document before it returned.
Return(n, op, a, b, success, msg, changed) ==
  [n |-> n, op |-> op, a |-> a, b |-> b, success |-> success, message |-> msg,
   changed |-> changed]

serverVars ==
  << clients, phase, open, request, playerIdOf, outbox, dbPending, dbCalls,
     isConnect, proc, listening, unhandled, rooms, uuids, latencies, received, inflight,
     closeRuns, message, table, settled, signals >>

\* Gift.claimGift(userId, {id}), from the answer of findOne to the await of
\* gift.save(): canClaimed reads the document findOne returned; a refused
\* claim returns at once, an allowed one pushes userId and issues the save.
claimGift(userId) ==
  /\ started < MaxClaims
  /\ started' = started + 1
  /\ LET can == canClaimed(claimedBy, userId)
     IN  IF can.canClaim
         THEN /\ claiming' = claiming \cup {[n |-> started + 1, userId |-> userId]}
              /\ returned' = NoReturn
         ELSE /\ claiming' = claiming
              /\ returned' = Return(started + 1, "claimGift", userId, NoId, FALSE, can.message, FALSE)
  /\ UNCHANGED << claimedBy, docs, running >>
  /\ UNCHANGED serverVars

\* gift.save() of claimGift reaches the database: the push on claimedBy is
\* written as a $push, which appends to the array the database holds now, and
\* the call returns success.
GiftSaved(call) ==
  /\ call \in claiming
  /\ claiming' = claiming \ {call}
  /\ claimedBy' = Append(claimedBy, call.userId)
  /\ returned' = Return(call.n, "claimGift", call.userId, NoId, TRUE, "Gift successfully claimed", TRUE)
  /\ UNCHANGED << docs, running, started >>
  /\ UNCHANGED serverVars


\* ------------------------------------------------------- models/player.ts
\* What findOne resolves to when no document matches (null), and what is left
\* of a document deleteOne removed.
NoDoc == [exists |-> FALSE, friends |-> << >>, friendRequests |-> << >>]

\* friendCode is unique per player: a code is written as the id of the player
\* that owns it, and NoId is a code no player owns.
FriendCodes == PlayerIds \cup {NoId}

\* Player.findOne({ id }) and Player.findOne({ friendCode }).
findOne(id) == IF id \in PlayerIds /\ docs[id].exists THEN docs[id] ELSE NoDoc

\* array.filter(id => id !== x)
filter(array, x) == SelectSeq(array, LAMBDA id : id # x)

\* The calls in flight are told apart by the lowest free number.
FreeSlot == CHOOSE n \in 1..MaxRunning :
              /\ \A c \in running : c.n # n
              /\ \A k \in 1..(n - 1) : \E c \in running : c.n = k

\* A call may start while fewer than k calls are in flight and fewer than
\* MaxCalls have been started.
CanStart(k) ==
  /\ Cardinality(running) < k
  /\ started < MaxCalls

\* A call suspended at an await: the documents findOne gave it (docA for id a,
\* docB for id b), whether the stored document's version (__v) moved since,
\* the saves still to be answered, and what happened to the answered ones.
Call(op, a, b, pc, docA, docB, todo) ==
  [n |-> FreeSlot, op |-> op, a |-> a, b |-> b, pc |-> pc,
   docA |-> docA, docB |-> docB, staleA |-> FALSE, staleB |-> FALSE,
   todo |-> todo, failed |-> FALSE, changed |-> FALSE]

\* A save that changes an array increments the document's __v: every loaded
\* copy of that document is now behind.
MarkStale(calls, id) ==
  { [c EXCEPT !.staleA = @ \/ (c.a = id /\ c.docA.exists),
              !.staleB = @ \/ (c.b = id /\ c.docB.exists)] : c \in calls }

SuccessMessage(op) ==
  CASE op = "sendFriendRequest" -> "Friend request sent"
    [] op = "acceptedFriendRequest" -> "Friend request accepted"
    [] op = "declineFriendRequest" -> "Friend request declined"
    [] op = "removeFriend" -> "Friend removed successfully"
    [] OTHER -> "Player and references removed successfully"

\* Player.sendFriendRequest(fromId, toFriendCode), from the answer of findOne
\* to the await of recipient.save().
sendFriendRequest(fromId, toFriendCode) ==
  LET recipient == findOne(toFriendCode)
      refusal ==
        IF ~recipient.exists THEN "Target player not found"
        ELSE IF toFriendCode = fromId THEN "Cannot friend yourself"
        ELSE IF Includes(recipient.friends, fromId) THEN "Already friends"
        ELSE IF Includes(recipient.friendRequests, fromId) THEN "Request already pending"
        ELSE ""
  IN  /\ IF refusal = ""
         THEN /\ running' = running \cup
                   {Call("sendFriendRequest", fromId, toFriendCode, "save", NoDoc, recipient, {"b"})}
              /\ returned' = NoReturn
         ELSE /\ running' = running
              /\ returned' = Return(FreeSlot, "sendFriendRequest", fromId, toFriendCode,
                                    FALSE, refusal, FALSE)
      /\ started' = started + 1
      /\ UNCHANGED << claimedBy, claiming, docs >>
      /\ UNCHANGED serverVars

\* Player.acceptedFriendRequest(receiverId, senderId): findOne for the receiver
\* is answered, findOne for the sender is awaited.
acceptedFriendRequest(receiverId, senderId) ==
  /\ running' = running \cup
       {Call("acceptedFriendRequest", receiverId, senderId, "findOne", findOne(receiverId), NoDoc, {})}
  /\ returned' = NoReturn
  /\ started' = started + 1
  /\ UNCHANGED << claimedBy, claiming, docs >>
  /\ UNCHANGED serverVars

\* acceptedFriendRequest, from the answer of the second findOne to the await
\* of Promise.all([receiver.save(), sender.save()]).
AcceptFoundSender(c) ==
  /\ c \in running /\ c.op = "acceptedFriendRequest" /\ c.pc = "findOne"
  /\ LET sender == findOne(c.b)
         refusal ==
           IF ~c.docA.exists \/ ~sender.exists THEN "Player(s) not found"
           ELSE IF IndexOf(c.docA.friendRequests, c.b) = 0
                THEN "No pending request from this player"
           ELSE ""
     IN  IF refusal = ""
         THEN /\ running' = (running \ {c}) \cup
                   {[c EXCEPT !.pc = "save", !.docB = sender, !.todo = {"a", "b"}]}
              /\ returned' = NoReturn
         ELSE /\ running' = running \ {c}
              /\ returned' = Return(c.n, c.op, c.a, c.b, FALSE, refusal, FALSE)
  /\ UNCHANGED << claimedBy, claiming, docs, started >>
  /\ UNCHANGED serverVars

\* Player.declineFriendRequest(receiverId, senderId), from the answer of
\* findOne to the await of receiver.save().
declineFriendRequest(receiverId, senderId) ==
  LET receiver == findOne(receiverId)
      refusal ==
        IF ~receiver.exists THEN "Player not found"
        ELSE IF IndexOf(receiver.friendRequests, senderId) = 0
             THEN "No pending request from this player"
        ELSE ""
  IN  /\ IF refusal = ""
         THEN /\ running' = running \cup
                   {Call("declineFriendRequest", receiverId, senderId, "save", receiver, NoDoc, {"a"})}
              /\ returned' = NoReturn
         ELSE /\ running' = running
              /\ returned' = Return(FreeSlot, "declineFriendRequest", receiverId, senderId,
                                    FALSE, refusal, FALSE)
      /\ started' = started + 1
      /\ UNCHANGED << claimedBy, claiming, docs >>
      /\ UNCHANGED serverVars

\* Player.removeFriend(playerId, friendId): findOne for the player is
\* answered, findOne for the friend is awaited.
removeFriend(playerId, friendId) ==
  /\ running' = running \cup
       {Call("removeFriend", playerId, friendId, "findOne", findOne(playerId), NoDoc, {})}
  /\ returned' = NoReturn
  /\ started' = started + 1
  /\ UNCHANGED << claimedBy, claiming, docs >>
  /\ UNCHANGED serverVars

\* removeFriend, from the answer of the second findOne to the await of
\* Promise.all([player.save(), friend.save()]).
RemoveFoundFriend(c) ==
  /\ c \in running /\ c.op = "removeFriend" /\ c.pc = "findOne"
  /\ LET friend == findOne(c.b)
     IN  IF c.docA.exists /\ friend.exists
         THEN /\ running' = (running \ {c}) \cup
                   {[c EXCEPT !.pc = "save", !.docB = friend, !.todo = {"a", "b"}]}
              /\ returned' = NoReturn
         ELSE /\ running' = running \ {c}
              /\ returned' = Return(c.n, c.op, c.a, c.b, FALSE, "Player(s) not found", FALSE)
  /\ UNCHANGED << claimedBy, claiming, docs, started >>
  /\ UNCHANGED serverVars

\* What document.save() of call c does to the stored document of role "a" or
\* "b". A push is written as an append to the stored array; a splice or an
\* assigned array is written as the whole array of the loaded copy and only if
\* the stored __v is still the loaded one; an unchanged document is not
\* written. A save whose document is gone, or whose __v moved, rejects.
save(c, role) ==
  LET id == IF role = "a" THEN c.a ELSE c.b
      other == IF role = "a" THEN c.b ELSE c.a
      loaded == IF role = "a" THEN c.docA ELSE c.docB
      stale == IF role = "a" THEN c.staleA ELSE c.staleB
      stored == docs[id]
      spliced == Splice(loaded.friendRequests, IndexOf(loaded.friendRequests, other))
      filtered == filter(loaded.friends, other)
  IN  CASE c.op = "sendFriendRequest" ->
             [ok |-> stored.exists, modified |-> TRUE,
              doc |-> [stored EXCEPT !.friendRequests = Append(@, other)]]
        [] c.op = "acceptedFriendRequest" /\ role = "a" ->
             [ok |-> stored.exists /\ ~stale, modified |-> TRUE,
              doc |-> [stored EXCEPT !.friendRequests = spliced,
                                     !.friends = Append(@, other)]]
        [] c.op = "acceptedFriendRequest" /\ role = "b" ->
             [ok |-> stored.exists, modified |-> TRUE,
              doc |-> [stored EXCEPT !.friends = Append(@, other)]]
        [] c.op = "declineFriendRequest" ->
             [ok |-> stored.exists /\ ~stale, modified |-> TRUE,
              doc |-> [stored EXCEPT !.friendRequests = spliced]]
        [] OTHER ->
             IF filtered = loaded.friends
             THEN [ok |-> stored.exists, modified |-> FALSE, doc |-> stored]
             ELSE [ok |-> stored.exists /\ ~stale, modified |-> TRUE,
                   doc |-> [stored EXCEPT !.friends = filtered]]

\* One save of call c is answered by the database; the call returns when the
\* last of its saves is answered, with success if none rejected.
Saved(c, role) ==
  /\ c \in running /\ c.pc = "save" /\ role \in c.todo
  /\ LET id == IF role = "a" THEN c.a ELSE c.b
         w == save(c, role)
         written == w.ok /\ w.modified
         after == [c EXCEPT !.todo = @ \ {role},
                            !.failed = @ \/ ~w.ok,
                            !.changed = @ \/ written]
         calls == (running \ {c}) \cup (IF after.todo = {} THEN {} ELSE {after})
     IN  /\ docs' = IF written THEN [docs EXCEPT ![id] = w.doc] ELSE docs
         /\ running' = IF written THEN MarkStale(calls, id) ELSE calls
         /\ returned' =
              IF after.todo = {}
              THEN Return(c.n, c.op, c.a, c.b, ~after.failed,
                          IF after.failed THEN "rejected" ELSE SuccessMessage(c.op),
                          after.changed)
              ELSE NoReturn
  /\ UNCHANGED << claimedBy, claiming, started >>
  /\ UNCHANGED serverVars

\* Player.removePlayer(playerId), from the answer of findOne to the await of
\* the first updateMany.
removePlayer(playerId) ==
  /\ IF findOne(playerId).exists
     THEN /\ running' = running \cup
               {Call("removePlayer", playerId, NoId, "pullFriends", findOne(playerId), NoDoc, {})}
          /\ returned' = NoReturn
     ELSE /\ running' = running
          /\ returned' = Return(FreeSlot, "removePlayer", playerId, NoId,
                                FALSE, "Player not found", FALSE)
  /\ started' = started + 1
  /\ UNCHANGED << claimedBy, claiming, docs >>
  /\ UNCHANGED serverVars

\* updateMany({ friends: playerId }, { $pull: { friends: playerId } }) is
\* answered: the id is gone from every stored friends list. updateMany does
\* not touch __v.
PullFriends(c) ==
  /\ c \in running /\ c.op = "removePlayer" /\ c.pc = "pullFriends"
  /\ docs' = [p \in PlayerIds |-> [docs[p] EXCEPT !.friends = filter(@, c.a)]]
  /\ running' = (running \ {c}) \cup
       {[c EXCEPT !.pc = "pullRequests", !.changed = @ \/ (docs' # docs)]}
  /\ returned' = NoReturn
  /\ UNCHANGED << claimedBy, claiming, started >>
  /\ UNCHANGED serverVars

\* updateMany({ 'friendRequests.from': playerId }, { $pull: ... }) is
\* answered: every stored request from the id is gone.
PullRequests(c) ==
  /\ c \in running /\ c.op = "removePlayer" /\ c.pc = "pullRequests"
  /\ docs' = [p \in PlayerIds |-> [docs[p] EXCEPT !.friendRequests = filter(@, c.a)]]
  /\ running' = (running \ {c}) \cup
       {[c EXCEPT !.pc = "deleteOne", !.changed = @ \/ (docs' # docs)]}
  /\ returned' = NoReturn
  /\ UNCHANGED << claimedBy, claiming, started >>
  /\ UNCHANGED serverVars

\* deleteOne({ id: playerId }) is answered and removePlayer returns success.
DeleteOne(c) ==
  /\ c \in running /\ c.op = "removePlayer" /\ c.pc = "deleteOne"
  /\ docs' = [docs EXCEPT ![c.a] = NoDoc]
  /\ running' = running \ {c}
  /\ returned' = Return(c.n, c.op, c.a, c.b, TRUE, SuccessMessage(c.op), TRUE)
  /\ UNCHANGED << claimedBy, claiming, started >>
  /\ UNCHANGED serverVars

\* ------------------------------------------------------------------- spec
Init ==
  /\ clients = << >>
  /\ phase = [w \in Conns |-> "none"]
  /\ open = [w \in Conns |-> FALSE]
  /\ request = NoRequest
  /\ playerIdOf = [w \in Conns |-> NoId]
  /\ outbox = [w \in Conns |-> << >>]
  /\ dbPending = {}
  /\ dbCalls = [w \in Conns |-> [b \in BOOLEAN |-> 0]]
  /\ isConnect = [p \in PlayerIds |-> FALSE]
  /\ proc = "Running"
  /\ listening = TRUE
  /\ unhandled = {}
  /\ rooms = << >>
  /\ uuids = 0
  /\ latencies = << >>
  /\ received = [w \in Conns |-> 0]
  /\ inflight = {}
  /\ closeRuns = [w \in Conns |-> 0]
  /\ message = NoMessage
  /\ table = eventHandlers
  /\ settled = NoSettled
  /\ signals = 0
  /\ claimedBy = << >>
  /\ claiming = {}
  /\ docs = [p \in PlayerIds |-> NewPlayer]
  /\ running = {}
  /\ returned = NoReturn
  /\ started = 0

Next ==
  \/ \E ws \in Conns, token \in Tokens, playerId \in PlayerIds \cup {NoId} :
       Connection(ws, token, playerId)
  \/ \E call \in dbPending, ok \in BOOLEAN : ConnectSettled(call, ok)
  \/ \E ws \in Conns : OnClose(ws)
  \/ \E call \in dbPending, ok \in BOOLEAN : DisconnectSettled(call, ok)
  \/ \E ws \in Conns, frame \in Frames :
       NoFrameYet /\ OnMessage(ws, frame)
  \/ \E call \in inflight, ok \in BOOLEAN, elapsed \in 0..MaxLatency :
       HandlerSettled(call, ok, elapsed)
  \/ ProcessExit

Spec == Init /\ [][Next]_vars

\* The router under load: every client presents the server token and the
\* database answers every update; more frames are received.
NextRouter ==
  \/ \E ws \in Conns, playerId \in PlayerIds :
       Connection(ws, TOKEN_SERVER, playerId)
  \/ \E call \in dbPending : ConnectSettled(call, TRUE)
  \/ \E ws \in Conns : OnClose(ws)
  \/ \E call \in dbPending : DisconnectSettled(call, TRUE)
  \/ \E ws \in Conns, frame \in Frames :
       SumReceived(NConns) < MaxFrames /\ OnMessage(ws, frame)
  \/ \E call \in inflight, ok \in BOOLEAN, elapsed \in 0..MaxLatency :
       HandlerSettled(call, ok, elapsed)
  \/ ProcessExit

SpecRouter == Init /\ [][NextRouter]_vars

\* The registry alone (no inbound frames), with the 'close' listener allowed
\* to run again.
NextReclose ==
  \/ \E ws \in Conns, token \in Tokens, playerId \in PlayerIds \cup {NoId} :
       Connection(ws, token, playerId)
  \/ \E call \in dbPending, ok \in BOOLEAN : ConnectSettled(call, ok)
  \/ \E ws \in Conns : OnClose(ws)
  \/ \E call \in dbPending, ok \in BOOLEAN : DisconnectSettled(call, ok)
  \/ \E ws \in Conns : CloseAgain(ws)
  \/ ProcessExit

SpecReclose == Init /\ [][NextReclose]_vars

\* Frames of the built-in room events with a well-formed payload.
RoomEventFrames ==
  { f \in Frames :
      /\ ~f.malformed
      /\ \/ f.event \in {"create_room", "leave_room"}
         \/ f.event = "join_room" /\ f.data.present /\ f.data.isString }

\* The room table: clients that pass the handshake and stay connected send
\* the built-in room events.
NextRooms ==
  \/ \E ws \in Conns, playerId \in PlayerIds :
       Connection(ws, TOKEN_SERVER, playerId)
  \/ \E call \in dbPending : ConnectSettled(call, TRUE)
  \/ \E ws \in Conns, frame \in RoomEventFrames :
       SumReceived(NConns) < MaxRoomFrames /\ OnMessage(ws, frame)

SpecRooms == Init /\ [][NextRooms]_vars

\* One room filling up: the first create_room makes the only room, and every
\* join_room asks for a seat in it.
FirstRoomId == randomUUID(0)

CapacityFrames ==
  { f \in RoomEventFrames : f.event = "join_room" => f.data.roomId = FirstRoomId }

NextCapacity ==
  \/ \E ws \in Conns, playerId \in PlayerIds :
       Connection(ws, TOKEN_SERVER, playerId)
  \/ \E call \in dbPending : ConnectSettled(call, TRUE)
  \/ \E ws \in Conns, frame \in CapacityFrames :
       /\ SumReceived(NConns) < MaxSeatFrames
       /\ frame.event = "create_room" => uuids = 0
       /\ OnMessage(ws, frame)

SpecCapacity == Init /\ [][NextCapacity]_vars

\* Room members going offline: clients that pass the handshake send the room
\* events and their transports may close. The mark-disconnected update a
\* close starts stays pending: it touches only the persisted flag.
NextOffline ==
  \/ \E ws \in Conns, playerId \in PlayerIds :
       Connection(ws, TOKEN_SERVER, playerId)
  \/ \E call \in dbPending : ConnectSettled(call, TRUE)
  \/ \E ws \in Conns : OnClose(ws)
  \/ \E ws \in Conns, frame \in RoomEventFrames :
       SumReceived(NConns) < MaxFrames /\ OnMessage(ws, frame)

SpecOffline == Init /\ [][NextOffline]_vars

\* Generic dispatch: clients that pass the handshake and stay connected send
\* malformed frames and frames naming a registered event, an unknown event,
\* an inherited property, no event, or create_room.
DispatchFrames ==
  { f \in Frames :
      f.malformed \/ f.event \in {"giftList", "totally_unknown", "toString",
                                  "undefined", "create_room"} }

NextDispatch ==
  \/ \E ws \in Conns, playerId \in PlayerIds :
       Connection(ws, TOKEN_SERVER, playerId)
  \/ \E call \in dbPending : ConnectSettled(call, TRUE)
  \/ \E ws \in Conns, frame \in DispatchFrames :
       SumReceived(NConns) < MaxFrames /\ OnMessage(ws, frame)
  \/ \E call \in inflight, ok \in BOOLEAN, elapsed \in 0..MaxLatency :
       HandlerSettled(call, ok, elapsed)

SpecDispatch == Init /\ [][NextDispatch]_vars

\* Replaced sessions: clients pass the handshake, send frames naming a
\* registered event, and close while the handler is awaiting; the player
\* then connects again on another WebSocket.
ReplaceFrames == { f \in Frames : ~f.malformed /\ f.event \in eventHandlers }

NextReplace ==
  \/ \E ws \in Conns, playerId \in PlayerIds :
       Connection(ws, TOKEN_SERVER, playerId)
  \/ \E call \in dbPending : ConnectSettled(call, TRUE)
  \/ \E ws \in Conns : OnClose(ws)
  \/ \E ws \in Conns, frame \in ReplaceFrames :
       SumReceived(NConns) < MaxFrames /\ OnMessage(ws, frame)
  \/ \E call \in inflight, ok \in BOOLEAN, elapsed \in 1..MaxLatency :
       HandlerSettled(call, ok, elapsed)

SpecReplace == Init /\ [][NextReplace]_vars

\* The handler table under registration: the host registers handlers with
\* Server.on, once and under a room event name, while clients create a room
\* and send join_room with a roomId of either type.
roomEvents == {"create_room", "join_room", "leave_room"}

TableFrames ==
  { f \in Frames :
      /\ ~f.malformed
      /\ f.event = "create_room" \/ (f.event = "join_room" /\ f.data.present) }

NextTable ==
  \/ \E ws \in Conns, playerId \in PlayerIds :
       Connection(ws, TOKEN_SERVER, playerId)
  \/ \E call \in dbPending : ConnectSettled(call, TRUE)
  \/ \E event \in roomEvents : table = eventHandlers /\ on(event)
  \/ \E ws \in Conns, frame \in TableFrames :
       /\ SumReceived(NConns) < MaxFrames
       /\ frame.event = "create_room" => uuids = 0
       /\ OnMessage(ws, frame)
  \/ \E call \in inflight : HandlerSettled(call, TRUE, MaxLatency)

SpecTable == Init /\ [][NextTable]_vars

\* Shutdown: clients pass the handshake and send frames naming a registered
\* event while the process receives termination signals.
NextShutdown ==
  \/ \E ws \in Conns, playerId \in PlayerIds :
       Connection(ws, TOKEN_SERVER, playerId)
  \/ \E call \in dbPending : ConnectSettled(call, TRUE)
  \/ \E ws \in Conns, frame \in ReplaceFrames :
       SumReceived(NConns) < MaxFrames /\ OnMessage(ws, frame)
  \/ \E call \in inflight, ok \in BOOLEAN :
       HandlerSettled(call, ok, MaxLatency)
  \/ Signal
  \/ ProcessExit

SpecShutdown == Init /\ [][NextShutdown]_vars

\* Early frames: clients send frames as soon as the WebSocket is open,
\* before or after the mark-connected update has been answered.
NextEarly ==
  \/ \E ws \in Conns, playerId \in PlayerIds :
       Connection(ws, TOKEN_SERVER, playerId)
  \/ \E call \in dbPending, ok \in BOOLEAN : ConnectSettled(call, ok)
  \/ \E ws \in Conns, frame \in ReplaceFrames : OnMessageNoListener(ws, frame)
  \/ \E ws \in Conns, frame \in ReplaceFrames :
       SumReceived(NConns) < MaxFrames /\ OnMessage(ws, frame)
  \/ \E call \in inflight, ok \in BOOLEAN :
       HandlerSettled(call, ok, MaxLatency)
  \/ ProcessExit

SpecEarly == Init /\ [][NextEarly]_vars

\* The persisted flag: clients pass the handshake, close and connect again
\* while the database answers every update, in the order it pleases.
NextPersist ==
  \/ \E ws \in Conns, playerId \in PlayerIds :
       Connection(ws, TOKEN_SERVER, playerId)
  \/ \E call \in dbPending : ConnectSettled(call, TRUE)
  \/ \E ws \in Conns : OnClose(ws)
  \/ \E call \in dbPending : DisconnectSettled(call, TRUE)

SpecPersist == Init /\ [][NextPersist]_vars

\* Gift.claimGift calls of the players on one gift, overlapping at their awaits.
NextGift ==
  \/ \E userId \in PlayerIds : claimGift(userId)
  \/ \E call \in claiming : GiftSaved(call)

SpecGift == Init /\ [][NextGift]_vars

\* What the database lets happen between the awaits of the calls in flight.
Answered ==
  \E c \in running :
    \/ AcceptFoundSender(c)
    \/ RemoveFoundFriend(c)
    \/ \E role \in {"a", "b"} : Saved(c, role)
    \/ PullFriends(c)
    \/ PullRequests(c)
    \/ DeleteOne(c)

\* The friend operations started while at most k of them are in flight.
Started(k) ==
  /\ CanStart(k)
  /\ \/ \E fromId \in PlayerIds, toFriendCode \in FriendCodes :
          sendFriendRequest(fromId, toFriendCode)
     \/ \E receiverId \in PlayerIds, senderId \in PlayerIds :
          acceptedFriendRequest(receiverId, senderId)
     \/ \E receiverId \in PlayerIds, senderId \in PlayerIds :
          declineFriendRequest(receiverId, senderId)
     \/ \E playerId \in PlayerIds, friendId \in PlayerIds :
          removeFriend(playerId, friendId)
     \/ \E playerId \in PlayerIds : removePlayer(playerId)

\* Friend operations of the players' handlers, overlapping at their awaits.
NextFriends == Started(MaxRunning) \/ Answered

SpecFriends == Init /\ [][NextFriends]_vars

\* Friend operations one after the other: a call starts when the one before
\* has returned.
NextFriendsInTurn == Started(1) \/ Answered

SpecFriendsInTurn == Init /\ [][NextFriendsInTurn]_vars

\* ================================================================== claims
\* The step in which the 'connection' callback runs for ws.
Handshake(ws) == phase[ws] = "none" /\ phase'[ws] # "none"

\* ws passed the handshake: it was put in the registry.
Accepted(ws) == phase[ws] \in {"registering", "attached", "failed"}

InRegistry(playerId) == \E i \in 1..Len(clients) : clients[i].id = playerId

Quiet == proc = "Running" /\ dbPending = {} /\ inflight = {}

\* C1: a handshake that presents the server token and a playerId that is a key
\* of the registry is rejected with ERR_ALREADY_CONNECTED and leaves the
\* registry as it was; and no two open accepted connections ever carry the
\* same playerId.
C1_SingleSession ==
  [][ /\ \A ws \in Conns :
           (Handshake(ws) /\ request'.token = TOKEN_SERVER
              /\ InRegistry(request'.playerId))
           => /\ phase'[ws] = "rejected"
              /\ outbox'[ws] = << ErrorFrame("ERR_ALREADY_CONNECTED") >>
              /\ clients' = clients
      /\ \A v, w \in Conns :
           (phase'[v] \in {"registering", "attached", "failed"}
              /\ phase'[w] \in {"registering", "attached", "failed"}
              /\ open'[v] /\ open'[w] /\ playerIdOf'[v] = playerIdOf'[w])
           => v = w ]_vars

C1_Witness ==
  \E v, w \in Conns :
    /\ Accepted(v) /\ open[v]
    /\ request = [ws |-> w, token |-> TOKEN_SERVER, playerId |-> playerIdOf[v]]
    /\ phase[w] = "rejected"

\* C2: the registry is a bijection: no two entries share a key or a
\* connection, the key list and the connection list have the same number of
\* distinct elements, and getClientId(getClientWebsocket(p)) = p for every
\* registered p.
C2_Bijection ==
  /\ \A i, j \in 1..Len(clients) :
       i # j => clients[i].id # clients[j].id /\ clients[i].ws # clients[j].ws
  /\ Cardinality({clientsIds[i] : i \in 1..Len(clientsIds)})
       = Cardinality({clientsWebsockets[i] : i \in 1..Len(clientsWebsockets)})
  /\ \A i \in 1..Len(clients) :
       getClientId(getClientWebsocket(clients[i].id)) = clients[i].id

C2_Witness == Len(clients) = 2

\* C3: a registered connection whose transport has closed is removed from the
\* registry: once the server has nothing left to run, no registry entry points
\* at a closed connection.
C3_ClosedSessionRemoved ==
  Quiet => \A i \in 1..Len(clients) : open[clients[i].ws]

\* C4: no inbound frame makes an error escape handleEvent to the process
\* level.
C4_NoRouterErrorEscapes == "handleEvent" \notin unhandled

\* C5: replies on one connection are emitted in the order their requests
\* arrived.
C5_RepliesInArrivalOrder ==
  \A ws \in Conns : \A i, j \in 1..Len(outbox[ws]) :
    (i < j /\ outbox[ws][i].re > 0 /\ outbox[ws][j].re > 0)
    => outbox[ws][i].re < outbox[ws][j].re

HandshakeFails(req) ==
  \/ req.token # TOKEN_SERVER
  \/ req.playerId = NoId
  \/ InRegistry(req.playerId)

C7_RejectionLeavesNoTrace ==
  [][ /\ \A ws \in Conns :
           (Handshake(ws) /\ HandshakeFails(request'))
           => /\ phase'[ws] = "rejected"
              /\ Len(outbox'[ws]) = 1
              /\ outbox'[ws][1].event = "error"
              /\ \A w \in Conns \ {ws} : outbox'[w] = outbox[w]
              /\ ~open'[ws]
              /\ clients' = clients
              /\ rooms' = rooms
              /\ latencies' = latencies
              /\ dbPending' = dbPending
              /\ dbCalls' = dbCalls
              /\ isConnect' = isConnect
      /\ \A ws \in Conns :
           phase[ws] = "rejected"
           => /\ phase'[ws] = "rejected"
              /\ outbox'[ws] = outbox[ws]
              /\ ~open'[ws]
              /\ received'[ws] = 0
              /\ closeRuns'[ws] = 0
              /\ dbCalls'[ws] = [b \in BOOLEAN |-> 0] ]_vars

C7_Witness ==
  /\ request.ws # NoConn
  /\ phase[request.ws] = "rejected"
  /\ Len(rooms) > 0
  /\ Len(clients) > 0

\* C8: the error code names the first failing check in the order token,
\* playerId presence, duplicate session.
C8_FirstFailingCheck ==
  [][ \A ws \in Conns :
        Handshake(ws) =>
          LET t == request'.token
              p == request'.playerId
              code == IF phase'[ws] = "rejected" THEN outbox'[ws][1].error ELSE "OK"
          IN /\ (~t.provided \/ t.secret # SECRET_KEY \/ t.expired)
                  => code = "ERR_MISSING_TOKEN"
             /\ (t.provided /\ t.secret = SECRET_KEY /\ ~t.expired
                   /\ t # TOKEN_SERVER)
                  => code = "ERR_VALID_TOKEN"
             /\ (t = TOKEN_SERVER /\ p = NoId) => code = "ERR_MISSING_PLAYER_ID"
             /\ (t = TOKEN_SERVER /\ p # NoId /\ InRegistry(p))
                  => code = "ERR_ALREADY_CONNECTED"
             /\ (t = TOKEN_SERVER /\ p # NoId /\ ~InRegistry(p)) => code = "OK"
    ]_vars

C8_Witness ==
  /\ request.ws # NoConn
  /\ request.token # TOKEN_SERVER
  /\ InRegistry(request.playerId)
  /\ phase[request.ws] = "rejected"

\* C9: every accepted connection has had exactly one mark-connected call, and
\* every accepted connection whose transport has closed has had exactly one
\* mark-disconnected call.
C9_StatusCallsExactlyOnce ==
  \A ws \in Conns :
    Accepted(ws) =>
      /\ dbCalls[ws][TRUE] = 1
      /\ ~open[ws] => dbCalls[ws][FALSE] = 1

\* C10: a second run of the 'close' listener for the same connection changes
\* neither the registry nor the persistence calls, whatever has happened since
\* the first run.
C10_UnregisterIdempotent ==
  [][ \A ws \in Conns :
        (closeRuns'[ws] = closeRuns[ws] + 1 /\ closeRuns[ws] >= 1)
        => /\ clients' = clients
           /\ dbPending' = dbPending
           /\ dbCalls' = dbCalls ]_vars

C10_Witness ==
  \E ws \in Conns :
    /\ closeRuns[ws] = 2
    /\ InRegistry(playerIdOf[ws])

\* ------------------------------------------------------------- room claims
\* The step in which the 'message' listener of ws runs with a frame naming
\* `event`.
MessageStep(ws, event) ==
  /\ message'.ws = ws
  /\ received'[ws] = received[ws] + 1
  /\ ~message'.frame.malformed
  /\ message'.frame.event = event

RoomMissing(rs, roomId) == \A i \in 1..Len(rs) : rs[i].id # roomId

RoomFull(rs, roomId) ==
  \E i \in 1..Len(rs) : rs[i].id = roomId /\ Len(rs[i].players) >= maxPlayers

LastFrame(ws) == outbox[ws][Len(outbox[ws])]

\* C11: every playerId is a member of at most one room.
C11_AtMostOneRoom ==
  \A p \in PlayerIds :
    Cardinality({i \in 1..Len(rooms) : Includes(rooms[i].players, p)}) <= 1

\* C12: every stored room has at least 1 and at most maxPlayers members.
C12_RoomSizeBounded ==
  \A i \in 1..Len(rooms) :
    Len(rooms[i].players) >= 1 /\ Len(rooms[i].players) <= maxPlayers

\* Two connections asked for the last seat: one player took it, and the join
\* of the other connection was refused.
C12_Witness ==
  /\ message.ws # NoConn
  /\ message.frame.event = "join_room"
  /\ Len(rooms) = 1
  /\ Len(rooms[1].players) = maxPlayers
  /\ rooms[1].players[maxPlayers] # getClientId(message.ws)
  /\ LastFrame(message.ws) = ErrorFrame("ROOM_FULL_OR_NOT_FOUND")

\* C13: no playerId occurs more than once in a room's players list.
C13_MembersFormSet ==
  \A i \in 1..Len(rooms) : \A j, k \in 1..Len(rooms[i].players) :
    j # k => rooms[i].players[j] # rooms[i].players[k]

\* C14: join_room on a room that is full, and join_room on a roomId that is
\* not in the table, each send exactly one error frame ROOM_FULL_OR_NOT_FOUND,
\* to the sender only, and leave the room table unchanged.
C14_RefusedJoin ==
  [][ \A ws \in Conns :
        (/\ MessageStep(ws, "join_room")
         /\ message'.frame.data.present /\ message'.frame.data.isString
         /\ \/ RoomMissing(rooms, message'.frame.data.roomId)
            \/ RoomFull(rooms, message'.frame.data.roomId))
        => /\ outbox'[ws] = Append(outbox[ws], ErrorFrame("ROOM_FULL_OR_NOT_FOUND"))
           /\ \A w \in Conns \ {ws} : outbox'[w] = outbox[w]
           /\ rooms' = rooms ]_vars

\* A join was just refused because the room is full.
C14_Witness ==
  /\ message.ws # NoConn
  /\ message.frame.event = "join_room"
  /\ RoomFull(rooms, message.frame.data.roomId)
  /\ LastFrame(message.ws) = ErrorFrame("ROOM_FULL_OR_NOT_FOUND")

\* C15: the leave of a room's only member deletes the room; a room id that
\* was handed out and is no longer in the table never comes back; and every
\* join_room naming such an id is refused with ROOM_FULL_OR_NOT_FOUND.
C15_DeletedRoomStaysDeleted ==
  [][ /\ \A ws \in Conns :
           LET i == RoomIndexByPlayer(rooms, getClientId(ws)) IN
           (MessageStep(ws, "leave_room") /\ i # 0 /\ Len(rooms[i].players) = 1)
           => RoomMissing(rooms', rooms[i].id)
      /\ \A r \in RoomIds :
           (r <= uuids /\ RoomMissing(rooms, r)) => RoomMissing(rooms', r)
      /\ \A ws \in Conns :
           (/\ MessageStep(ws, "join_room")
            /\ message'.frame.data.present /\ message'.frame.data.isString
            /\ message'.frame.data.roomId <= uuids
            /\ RoomMissing(rooms, message'.frame.data.roomId))
           => /\ outbox'[ws] = Append(outbox[ws], ErrorFrame("ROOM_FULL_OR_NOT_FOUND"))
              /\ rooms' = rooms ]_vars

\* A join naming the id of a deleted room was just refused.
C15_Witness ==
  /\ message.ws # NoConn
  /\ message.frame.event = "join_room"
  /\ message.frame.data.isString
  /\ message.frame.data.roomId <= uuids
  /\ RoomMissing(rooms, message.frame.data.roomId)
  /\ LastFrame(message.ws) = ErrorFrame("ROOM_FULL_OR_NOT_FOUND")

\* C16: on a successful join_room every connection registered for a member of
\* the updated room is sent exactly one room_updated frame carrying the room
\* after the join, and every other connection is sent nothing.
C16_JoinFanOutExactlyOnce ==
  [][ \A ws \in Conns :
        (/\ MessageStep(ws, "join_room")
         /\ message'.frame.data.present /\ message'.frame.data.isString
         /\ ~RoomMissing(rooms, message'.frame.data.roomId)
         /\ ~RoomFull(rooms, message'.frame.data.roomId))
        => LET room == rooms'[RoomIndex(rooms', message'.frame.data.roomId)] IN
           \A w \in Conns :
             outbox'[w] =
               IF open[w] /\ Includes(room.players, getClientId(w))
               THEN Append(outbox[w], RoomFrame("room_updated", room))
               ELSE outbox[w] ]_vars

\* C17: leave_room removes the sender from the room that contains it; each
\* remaining member's connection is sent exactly one room_updated frame
\* carrying the room after the removal and the leaver none; an emptied room is
\* deleted and nothing is sent; a sender in no room changes nothing and is
\* sent nothing.
C17_LeaveRoom ==
  [][ \A ws \in Conns :
        MessageStep(ws, "leave_room") =>
          LET p == getClientId(ws)
              i == RoomIndexByPlayer(rooms, p)
          IN IF i = 0
             THEN rooms' = rooms /\ outbox' = outbox
             ELSE LET j == RoomIndex(rooms', rooms[i].id) IN
                  /\ outbox'[ws] = outbox[ws]
                  /\ IF j = 0
                     THEN /\ Len(rooms[i].players) = 1
                          /\ outbox' = outbox
                     ELSE /\ ~Includes(rooms'[j].players, p)
                          /\ \A w \in Conns \ {ws} :
                               outbox'[w] =
                                 IF open[w] /\ Includes(rooms'[j].players, getClientId(w))
                                 THEN Append(outbox[w],
                                             RoomFrame("room_updated", rooms'[j]))
                                 ELSE outbox[w] ]_vars

\* C18: create_room adds exactly one room, whose id is none of the ids in the
\* table and whose only member is the creator, leaves the other rooms as they
\* were, and sends exactly one room_created frame, to the creator only.
C18_CreateRoom ==
  [][ \A ws \in Conns :
        MessageStep(ws, "create_room") =>
          /\ Len(rooms') = Len(rooms) + 1
          /\ \A i \in 1..Len(rooms) : rooms'[i] = rooms[i]
          /\ RoomMissing(rooms, rooms'[Len(rooms')].id)
          /\ rooms'[Len(rooms')].players = << getClientId(ws) >>
          /\ outbox'[ws] =
               Append(outbox[ws], RoomFrame("room_created", rooms'[Len(rooms')]))
          /\ \A w \in Conns \ {ws} : outbox'[w] = outbox[w] ]_vars

\* A second room was just created while another client is connected.
C18_Witness ==
  /\ message.ws # NoConn
  /\ message.frame.event = "create_room"
  /\ Len(rooms) = 2
  /\ Len(clients) = 2
  /\ LastFrame(message.ws).event = "room_created"

\* C19: a room fan-out (a successful join_room, or a leave_room) raises no
\* error, writes nothing on a connection that has no registry entry, and
\* still reaches every member that has one, whether or not other members are
\* offline; and nothing is kept for later: a connection that registers starts
\* with no frame and gets none when its handshake completes.
C19_OfflineMemberSkipped ==
  [][ /\ \A ws \in Conns :
           (\/ /\ MessageStep(ws, "join_room")
               /\ message'.frame.data.present /\ message'.frame.data.isString
            \/ MessageStep(ws, "leave_room"))
           => /\ unhandled' = unhandled
              /\ proc' = proc
              /\ \A w \in Conns : getClientId(w) = NoId => outbox'[w] = outbox[w]
      /\ \A ws \in Conns :
           (/\ MessageStep(ws, "join_room")
            /\ message'.frame.data.present /\ message'.frame.data.isString
            /\ ~RoomMissing(rooms, message'.frame.data.roomId)
            /\ ~RoomFull(rooms, message'.frame.data.roomId))
           => LET room == rooms'[RoomIndex(rooms', message'.frame.data.roomId)] IN
              \A w \in Conns :
                (open[w] /\ Includes(room.players, getClientId(w)))
                => /\ Len(outbox'[w]) > Len(outbox[w])
                   /\ outbox'[w][Len(outbox'[w])] = RoomFrame("room_updated", room)
      /\ \A ws \in Conns :
           (Handshake(ws) /\ phase'[ws] = "registering") => outbox'[ws] = << >>
      /\ \A ws \in Conns :
           (phase[ws] = "registering" /\ phase'[ws] # "registering")
           => outbox' = outbox ]_vars

\* A join was just fanned out over a room whose earlier member has no
\* registry entry, and the joiner, later in the list, got the frame.
C19_Witness ==
  /\ message.ws # NoConn
  /\ message.frame.event = "join_room"
  /\ \E r \in 1..Len(rooms) : \E i, j \in 1..Len(rooms[r].players) :
       /\ i < j
       /\ ~InRegistry(rooms[r].players[i])
       /\ rooms[r].players[j] = getClientId(message.ws)
       /\ LastFrame(message.ws) = RoomFrame("room_updated", rooms[r])
       /\ \A w \in Conns :
            playerIdOf[w] = rooms[r].players[i]
            => \A k \in 1..Len(outbox[w]) : outbox[w][k].event # "room_updated"

\* Event names that have no handler in the table and are not room events:
\* one that nothing defines and one that Object.prototype defines.
UnregisteredEvents == {"totally_unknown", "toString"}

\* C20: a frame naming an event that has no registered handler and is not a
\* room event gets no reply and changes neither registry, rooms nor latency
\* samples, at once or later; the session stays registered and its
\* connection open, so every frame naming a registered event is dispatched
\* whatever came before it on the connection, and is answered on that
\* connection when its handler returns.
C20_UnknownEventIgnored ==
  [][ /\ \A ws \in Conns, e \in UnregisteredEvents :
           MessageStep(ws, e)
           => /\ outbox' = outbox
              /\ clients' = clients
              /\ rooms' = rooms
              /\ latencies' = latencies
              /\ phase' = phase /\ open' = open
              /\ proc' = proc /\ unhandled' = unhandled
      /\ latencies' # latencies => settled'.call.event \notin UnregisteredEvents
      /\ \A ws \in Conns :
           MessageStep(ws, "giftList")
           => inflight' = inflight \cup
                {[ws |-> ws, id |-> getClientId(ws), event |-> "giftList",
                  seq |-> received'[ws]]}
      /\ \A call \in inflight :
           call \notin inflight'
           => \/ outbox' = [outbox EXCEPT ![call.ws] =
                              Append(@, ReplyFrame(call.event, call.seq))]
              \/ outbox' = outbox ]_vars

\* The step in which the 'message' listener of ws runs, whatever the frame.
FrameStep(ws) ==
  /\ message'.ws = ws
  /\ received'[ws] = received[ws] + 1

\* The step sends nothing, invokes nothing and leaves the registry, the
\* rooms, the latency samples, the connections and the process as they are.
Dropped ==
  /\ outbox' = outbox
  /\ inflight' = inflight
  /\ clients' = clients
  /\ rooms' = rooms
  /\ latencies' = latencies
  /\ phase' = phase /\ open' = open
  /\ proc' = proc /\ unhandled' = unhandled

\* C21: a malformed frame (text that is not JSON, JSON null, JSON without an
\* event field) and a frame on a connection without a registry entry are
\* dropped: nothing is sent, no handler is invoked, registry, rooms and
\* latency samples are unchanged and the connection stays open.
C21_MalformedDropped ==
  [][ \A ws \in Conns :
        /\ FrameStep(ws)
        /\ \/ message'.frame.malformed
           \/ message'.frame.event = "undefined"
           \/ getClientId(ws) = NoId
        => Dropped ]_vars

\* A malformed frame has arrived on the connection of a registered player
\* that owns a room; the connection is still open and has been sent nothing
\* but the room_created frame.
C21_Witness ==
  /\ message.ws # NoConn
  /\ message.frame.malformed
  /\ getClientId(message.ws) # NoId
  /\ open[message.ws]
  /\ RoomIndexByPlayer(rooms, getClientId(message.ws)) # 0
  /\ Len(outbox[message.ws]) = 1
  /\ proc = "Running"

\* The step in which the call `c` settles; ok tells whether its logic returned.
SettledStep(c, ok) == settled'.call = c /\ settled'.ok = ok

\* C22: when the logic of a registered handler throws, the fault is caught:
\* no reply is sent, the registry, the connections and the process are left
\* as they are, and every frame naming a registered event, from any
\* connection, is still dispatched.
C22_HandlerFaultCaught ==
  [][ /\ \A c \in inflight :
           SettledStep(c, FALSE)
           => /\ outbox' = outbox
              /\ clients' = clients
              /\ phase' = phase /\ open' = open
              /\ proc' = proc /\ unhandled' = unhandled /\ listening' = listening
      /\ \A ws \in Conns :
           MessageStep(ws, "giftList")
           => \E c \in inflight' \ inflight :
                c.ws = ws /\ c.event = "giftList" /\ c.seq = received'[ws] ]_vars

\* The logic of the first giftList call of a connection has thrown: the
\* connection is open and registered, it has been sent nothing, the process
\* runs, and the call of its second giftList frame is in flight.
C22_Witness ==
  /\ settled.call.ws # NoConn
  /\ ~settled.ok
  /\ settled.call.event = "giftList"
  /\ settled.call.seq = 1
  /\ open[settled.call.ws]
  /\ getClientId(settled.call.ws) = settled.call.id
  /\ outbox[settled.call.ws] = << >>
  /\ proc = "Running" /\ unhandled = {}
  /\ \E c \in inflight : c.ws = settled.call.ws /\ c.seq = 2

\* How often the reply to call `c` stands in what was written to ws.
Replies(ob, ws, c) ==
  Cardinality({ i \in 1..Len(ob[ws]) : ob[ws][i] = ReplyFrame(c.event, c.seq) })

\* C23 as stated: when a registered handler completes successfully, exactly
\* one reply naming the request's event is sent on the connection the request
\* arrived on, and nothing on any other connection, even if the player's
\* session was replaced meanwhile.
C23_ExactlyOneReply ==
  [][ \A c \in inflight :
        (SettledStep(c, TRUE) /\ c.event \in eventHandlers)
        => outbox' = [outbox EXCEPT ![c.ws] = Append(@, ReplyFrame(c.event, c.seq))]
    ]_vars

\* C23, amended: when a registered handler completes successfully, exactly
\* one reply naming the request's event is sent on the connection the request
\* arrived on if that connection is still open and none if it has closed;
\* nothing is sent on any other connection, even if the player's session was
\* replaced meanwhile, and no reply is ever sent twice.
C23_ReplyOnRequestConnection ==
  [][ \A c \in inflight :
        (SettledStep(c, TRUE) /\ c.event \in eventHandlers)
        => /\ outbox' =
                IF open[c.ws]
                THEN [outbox EXCEPT ![c.ws] = Append(@, ReplyFrame(c.event, c.seq))]
                ELSE outbox
           /\ Replies(outbox', c.ws, c) = IF open[c.ws] THEN 1 ELSE 0
    ]_vars

\* A handler has completed successfully for a request whose connection has
\* closed and whose player is registered again on another connection: that
\* connection has been sent nothing.
C23_Witness ==
  /\ settled.ok
  /\ settled.call.ws # NoConn
  /\ settled.call.event \in eventHandlers
  /\ ~open[settled.call.ws]
  /\ getClientWebsocket(settled.call.id) \notin {NoConn, settled.call.ws}
  /\ phase[getClientWebsocket(settled.call.id)] = "attached"
  /\ outbox[getClientWebsocket(settled.call.id)] = << >>

\* C24: a player's latency sample changes only when a frame of that player's
\* session was dispatched to a registered handler that completed
\* successfully; a handler whose logic threw, an unknown event, a malformed
\* frame and the room events leave it unchanged.
C24_LatencyOnlyOnSuccess ==
  [][ \A p \in PlayerIds :
        (p \in DOMAIN latencies'
           /\ (p \in DOMAIN latencies => latencies'[p] # latencies[p]))
        => \E c \in inflight :
             /\ SettledStep(c, TRUE)
             /\ c.id = p
             /\ c.event \in eventHandlers ]_vars

\* Two results of getGlobalLatency are the same number (or both null).
SameAverage(a, b) ==
  /\ a.length = 0 <=> b.length = 0
  /\ a.total * b.length = b.total * a.length

\* The average of the samples of the players that are in the registry.
LiveAverage ==
  LET ids == { p \in DOMAIN latencies : InRegistry(p) } IN
  IF ids = {} THEN null
  ELSE [total |-> reduce(latencies, ids), length |-> Cardinality(ids)]

\* C25: getGlobalLatency returns the average of the last samples of exactly
\* the sessions that are in the registry and have a sample; a player whose
\* session has closed contributes nothing, and the result is null when no
\* live session has a sample.
C25_AverageOverLiveSessions == SameAverage(getGlobalLatency, LiveAverage)

\* The step in which the first handler call of the server settles, with a
\* result, after L milliseconds.
FirstSample(L) ==
  /\ latencies = << >>
  /\ settled'.call.ws # NoConn
  /\ settled'.ok
  /\ settled'.elapsed = L

\* C26 as stated: with no session ever registered getGlobalLatency returns
\* null, and after one session has completed one dispatched event measured
\* at L milliseconds it returns exactly L, for every L >= 0.
C26_FirstSampleIsAverage ==
  [][ /\ clients = << >> /\ latencies = << >> => getGlobalLatency = null
      /\ \A L \in 0..MaxLatency :
           FirstSample(L) => getGlobalLatency' = [total |-> L, length |-> 1]
    ]_vars

\* C26, amended: with no session ever registered getGlobalLatency returns
\* null, and after one session has completed one dispatched event measured
\* at L milliseconds it returns exactly L if L > 0 and null if L = 0.
C26_FirstPositiveSampleIsAverage ==
  [][ /\ clients = << >> /\ latencies = << >> => getGlobalLatency = null
      /\ \A L \in 0..MaxLatency :
           FirstSample(L)
           => getGlobalLatency' =
                IF L > 0 THEN [total |-> L, length |-> 1] ELSE null
    ]_vars

\* One session has completed one dispatched event, measured at 0 ms, and
\* getGlobalLatency returns null.
C26_Witness ==
  /\ settled.call.ws # NoConn
  /\ settled.ok
  /\ settled.elapsed = 0
  /\ settled.call.event \in eventHandlers
  /\ SumReceived(NConns) = 1
  /\ DOMAIN latencies = {settled.call.id}
  /\ getGlobalLatency = null

\* C27: the room events create_room, join_room and leave_room are handled
\* by the room component only: whatever the handler table contains, no
\* generic handler is ever invoked for them.
C27_RoomEventsBypassTable ==
  \A c \in inflight : c.event \notin roomEvents

\* The step in which the process receives a termination signal.
SignalStep == signals' = signals + 1

\* ws is the connection of a session of the registry.
Live(ws) == open[ws] /\ getClientId(ws) # NoId

ShutdownFrame == [event |-> "server_shutdown", error |-> "", room |-> NoRoom, re |-> 0]

\* C28: on a termination signal received while Running, a server_shutdown
\* frame is sent to every session live at that moment, before the listening
\* surface is closed and before the process exits.
C28_ShutdownBroadcast ==
  [][ (SignalStep /\ proc = "Running")
      => /\ \A ws \in Conns :
              Live(ws) => outbox'[ws] = Append(outbox[ws], ShutdownFrame)
         /\ proc' # "Exited" ]_vars

\* C29: after a termination signal the server stays in Draining for the
\* whole grace window: until it expires inbound frames are dispatched and
\* answered and the listening surface is open; only at expiry is it closed,
\* and only after that does the process terminate.
C29_GraceWindow ==
  [][ /\ (SignalStep /\ proc = "Running")
         => (proc' = "ShuttingDown" /\ listening')
      /\ proc' = "Exited" => ~listening ]_vars

\* C30: the shutdown state machine moves only Running -> Draining -> Closed
\* (Running, ShuttingDown, Exited): a second signal during Draining raises
\* no error and does not move the machine back to Running, and once Closed
\* nothing changes any more, so Closed is entered once.
C30_ShutdownStateMachine ==
  [][ /\ proc' # proc
         => \/ proc = "Running" /\ proc' = "ShuttingDown"
            \/ proc = "ShuttingDown" /\ proc' = "Exited"
      /\ (SignalStep /\ proc = "ShuttingDown")
         => (proc' = "ShuttingDown" /\ unhandled' = unhandled)
      /\ proc = "Exited" => UNCHANGED vars ]_vars

\* Two termination signals have been received, the second during Draining,
\* no error was raised and the process has exited.
C30_Witness ==
  /\ signals = 2
  /\ proc = "Exited"
  /\ unhandled = {}

\* C31: once a session is registered, every well-formed frame that arrives
\* on its connection until the connection closes is dispatched; none that
\* arrives after the registry insert is lost.
C31_NoFrameLost ==
  [][ \A ws \in Conns :
        (message'.ws = ws /\ ~message'.frame.malformed /\ Live(ws))
        => /\ received'[ws] = received[ws] + 1
           /\ message'.frame.event \in table
              => \E c \in inflight' \ inflight :
                   c.ws = ws /\ c.event = message'.frame.event ]_vars

Seats(rs, id, p) ==
  IF RoomMissing(rs, id) THEN 0
  ELSE LET players == rs[RoomIndex(rs, id)].players IN
       Cardinality({ k \in 1..Len(players) : players[k] = p })

\* The step in which the transport of ws closes.
CloseStep(ws) == open[ws] /\ ~open'[ws]

\* C33: closing a session's connection leaves the room table unchanged and
\* sends no frame to anybody; a member leaves a room, and a room is deleted,
\* only in a step in which an open connection registered for that member
\* delivers leave_room, so a room whose members are all disconnected stays
\* until each of them has reconnected and sent leave_room.
C33_CloseKeepsRooms ==
  [][ /\ \A ws \in Conns :
           CloseStep(ws) => (rooms' = rooms /\ outbox' = outbox)
      /\ \A i \in 1..Len(rooms) : \A p \in PlayerIds :
           Seats(rooms', rooms[i].id, p) < Seats(rooms, rooms[i].id, p)
           => \E ws \in Conns :
                MessageStep(ws, "leave_room") /\ Live(ws) /\ getClientId(ws) = p
      /\ \A i \in 1..Len(rooms) :
           RoomMissing(rooms', rooms[i].id)
           => \A p \in PlayerIds : Seats(rooms, rooms[i].id, p) > 0
                => Seats(rooms, rooms[i].id, p) = 1 /\ Len(rooms[i].players) = 1
    ]_vars

\* A room is stored whose only member has disconnected: the player is not in
\* the registry and its connection is closed.
C33_Witness ==
  \E i \in 1..Len(rooms) :
    /\ Len(rooms[i].players) >= 1
    /\ \A k \in 1..Len(rooms[i].players) : ~InRegistry(rooms[i].players[k])
    /\ \E ws \in Conns : playerIdOf[ws] = rooms[i].players[1] /\ ~open[ws]
                           /\ phase[ws] = "attached"

\* C34: join_room whose data carries a roomId that is not a string is
\* answered with exactly one error frame INVALID_ROOM_ID on the sender's
\* connection; the room table is unchanged, nobody is sent room_updated, and
\* handling stops there: no handler is called, whatever the table holds, and
\* no latency sample is written.
C34_InvalidRoomId ==
  [][ \A ws \in Conns :
        (MessageStep(ws, "join_room")
           /\ message'.frame.data.present /\ ~message'.frame.data.isString)
        => /\ outbox' = [outbox EXCEPT ![ws] = Append(@, ErrorFrame("INVALID_ROOM_ID"))]
           /\ rooms' = rooms
           /\ inflight' = inflight
           /\ latencies' = latencies ]_vars

\* join_room with a roomId that is not a string has just been answered with
\* INVALID_ROOM_ID while the table holds a handler for join_room and a room
\* exists.
C34_Witness ==
  /\ message.ws # NoConn
  /\ message.frame.event = "join_room"
  /\ message.frame.data.present /\ ~message.frame.data.isString
  /\ "join_room" \in table
  /\ rooms # << >>
  /\ Len(outbox[message.ws]) >= 1
  /\ LastFrame(message.ws) = ErrorFrame("INVALID_ROOM_ID")

\* C35: whenever no connect or disconnect update is pending, the persisted
\* connected flag of every player tells whether the player has an entry in
\* the registry, also when the player's old connection closed and a new one
\* registered while the disconnect update was in flight.
C35_FlagMatchesRegistry ==
  dbPending = {} => \A p \in PlayerIds : isConnect[p] = InRegistry(p)

\* C36: under any interleaving of claimGift calls a user id is in the gift's
\* claimedBy at most once, and a call returns success only for a user id that
\* was not in claimedBy.
C36_ClaimedAtMostOnce ==
  /\ \A u \in PlayerIds : Occurrences(claimedBy, u) <= 1
  /\ \A u \in PlayerIds :
       (returned.op = "claimGift" /\ returned.a = u /\ returned.success)
         => Occurrences(claimedBy, u) = 1

\* Player a's stored friends list names player b.
Friend(a, b) == Includes(docs[a].friends, b)

\* C37: whenever no friend operation is in flight, for all players A and B,
\* A is in B's friends list if and only if B is in A's friends list.
C37_FriendshipSymmetric ==
  running = {} =>
    \A a \in PlayerIds, b \in PlayerIds :
      (docs[a].exists /\ docs[b].exists) => (Friend(a, b) <=> Friend(b, a))

\* C38: a player's stored friends list holds each player id at most once and
\* never the player's own id.
C38_FriendsListIsSet ==
  \A p \in PlayerIds :
    /\ \A q \in PlayerIds : Occurrences(docs[p].friends, q) <= 1
    /\ ~Includes(docs[p].friends, p)

\* The step is the return of a refused sendFriendRequest(fromId, code).
SendRefused(fromId, code) ==
  /\ returned'.op = "sendFriendRequest" /\ returned'.a = fromId /\ returned'.b = code
  /\ ~returned'.success

\* The step is the return of a successful sendFriendRequest(fromId, code).
SendSucceeded(fromId, code) ==
  /\ returned'.op = "sendFriendRequest" /\ returned'.a = fromId /\ returned'.b = code
  /\ returned'.success

\* sendFriendRequest(fromId, code) has a reason to refuse in the stored state.
MustRefuse(fromId, code) ==
  \/ ~findOne(code).exists
  \/ code = fromId
  \/ Includes(findOne(code).friends, fromId)
  \/ Includes(findOne(code).friendRequests, fromId)

\* C39 (per call): a sendFriendRequest that finds the code unknown, its own,
\* the sender already a friend or a request already pending returns
\* success=false and changes no player; any other appends exactly one request
\* from the sender to the recipient and changes nothing else.
C39_SendContract ==
  [][ \A fromId \in PlayerIds, code \in FriendCodes :
        /\ SendRefused(fromId, code) => docs' = docs
        /\ SendSucceeded(fromId, code) =>
             /\ ~MustRefuse(fromId, code)
             /\ docs' = [docs EXCEPT ![code].friendRequests = Append(@, fromId)] ]_vars

\* C39 (consequence): a stored friendRequests list holds at most one entry per
\* sender.
C39_OneRequestPerSender ==
  \A p \in PlayerIds, q \in PlayerIds : Occurrences(docs[p].friendRequests, q) <= 1

\* The step is the return of call c of operation op.
Returns(c, op) ==
  /\ c \in running /\ c.op = op
  /\ returned'.op = op /\ returned'.n = c.n /\ returned'.a = c.a /\ returned'.b = c.b

\* The stored receiver holds a request from the sender and both players exist.
Pending(receiverId, senderId) ==
  /\ findOne(receiverId).exists /\ findOne(senderId).exists
  /\ Includes(findOne(receiverId).friendRequests, senderId)

\* C40: acceptedFriendRequest(receiver, sender) succeeds only for two existing
\* players with a request from the sender pending at the receiver; a successful
\* call has removed that request and each player is in the other's friends
\* list; a failed accept or decline has changed no document; a decline of a
\* pending request succeeds, removes the request and changes no friends list.
C40_AcceptDeclineContract ==
  [][ /\ \A c \in running :
           (Returns(c, "acceptedFriendRequest") /\ returned'.success) =>
             /\ c.docA.exists /\ c.docB.exists
             /\ Includes(c.docA.friendRequests, c.b)
             /\ Occurrences(docs'[c.a].friendRequests, c.b)
                  = Occurrences(c.docA.friendRequests, c.b) - 1
             /\ Friend(c.a, c.b)' /\ Friend(c.b, c.a)'
      /\ (returned'.op \in {"acceptedFriendRequest", "declineFriendRequest"}
            /\ ~returned'.success) => ~returned'.changed
      /\ \A c \in running :
           (Returns(c, "declineFriendRequest") /\ returned'.success) =>
             /\ Includes(docs[c.a].friendRequests, c.b)
             /\ Occurrences(docs'[c.a].friendRequests, c.b)
                  = Occurrences(docs[c.a].friendRequests, c.b) - 1
             /\ \A p \in PlayerIds : docs'[p].friends = docs[p].friends
      /\ \A receiverId \in PlayerIds, senderId \in PlayerIds :
           (returned'.op = "declineFriendRequest" /\ returned'.a = receiverId
              /\ returned'.b = senderId /\ Pending(receiverId, senderId))
             => returned'.success ]_vars

====
